---- MODULE Spec2Model ----
(***************************************************************************)
(* Model of jaeger's model/span.go: the TraceID and SpanID hex codecs, the *)
(* Flags bitmask and the parent-reference logic of Span.                   *)
(*                                                                         *)
(* A uint64 is a tuple of HexDigitsPerWord hexadecimal digits, most        *)
(* significant first (TLC's integers are too narrow for 64 bits).  A Go    *)
(* string or []byte is a sequence of one-character strings.  A Flags value *)
(* is the vector of its FlagWidth bits, indexed from bit 0.                *)
(***************************************************************************)
EXTENDS Integers, Sequences, FiniteSets, TLC

VARIABLES
    traceID,      \* Span.TraceID
    references,   \* Span.References
    spanOp,       \* the last Span operation: <<name, argument>>
    spanRet,      \* what the last Span operation returned
    refsBefore,   \* Span.References before the last Span operation
    flags,        \* a Flags value
    flagsOp,      \* the last Flags operation
    flagsRet,     \* what the last Flags operation returned
    flagsBefore,  \* the Flags value before the last Flags operation
    tid,          \* a TraceID (receiver of String, MarshalJSONPB, UnmarshalJSONPB)
    sid,          \* a SpanID (receiver of the same methods)
    buf,          \* a string or byte slice: the codecs' input and output
    codecOp,      \* the last codec operation
    codecErr,     \* the error the last codec operation returned, "nil" for none
    codecRet,     \* the identifier the last parse returned
    idBefore,     \* the receiver before the last UnmarshalJSONPB
    hexParsed,    \* whether the last UnmarshalJSONPB called the hex parser
    bufOf         \* the identifier whose String/MarshalJSONPB wrote buf, or NoID

spanVars == <<traceID, references, spanOp, spanRet, refsBefore>>
flagsVars == <<flags, flagsOp, flagsRet, flagsBefore>>
codecVars == <<tid, sid, buf, codecOp, codecErr, codecRet, idBefore, hexParsed, bufOf>>
vars == <<traceID, references, spanOp, spanRet, refsBefore,
          flags, flagsOp, flagsRet, flagsBefore,
          tid, sid, buf, codecOp, codecErr, codecRet, idBefore, hexParsed, bufOf>>

----------------------------------------------------------------------------
(* Bounds of the model *)

\* the longest References a span starts with
MaxRefs == 3
\* the longest string handed to a parser
MaxStrLen == 34

----------------------------------------------------------------------------
(* Program constants *)

\* strconv.ParseUint(s, 16, 64): base and bit size
Base == 16
BitSize == 64
\* TraceIDFromString: len(s) > 32
TraceIDMaxLen == 32
\* TraceIDFromString: len(s) > 16, hiLen := len(s) - 16
TraceIDLowLen == 16
\* TraceID.String: %016x
LowPadWidth == 16
\* SpanIDFromString: len(s) > 16
SpanIDMaxLen == 16
\* UnmarshalJSONPB: len(b) < 3
MinJSONLen == 3
\* type Flags uint32
FlagWidth == 32
\* sampledFlag = Flags(1), debugFlag = Flags(2)
sampledFlagValue == 1
debugFlagValue == 2
\* SpanRefType: ChildOf = 0, FollowsFrom = 1
ChildOf == 0
FollowsFrom == 1

\* the number of base-16 digits of a 64-bit word
HexDigitsPerWord == BitSize \div 4

----------------------------------------------------------------------------
(* uint64 values *)

RECURSIVE Digits(_, _)
\* the k least significant base-16 digits of the natural number n, most significant first
Digits(n, k) == IF k = 0 THEN <<>> ELSE Append(Digits(n \div Base, k - 1), n % Base)

\* uint64(n) for a small natural number n
U64(n) == Digits(n, HexDigitsPerWord)

\* SpanID(0), and the zero value of a uint64 field
ZeroU64 == U64(0)

\* TraceID{High: h, Low: l}
TraceID(h, l) == [High |-> h, Low |-> l]

\* TraceID{}
ZeroTraceID == TraceID(ZeroU64, ZeroU64)

----------------------------------------------------------------------------
(* Flags *)

FlagBitIdx == 0 .. (FlagWidth - 1)

RECURSIVE BitOf(_, _)
\* bit i of the natural number n
BitOf(n, i) == IF i = 0 THEN n % 2 = 1 ELSE BitOf(n \div 2, i - 1)

\* Flags(n) for a small natural number n
FlagsOf(n) == [i \in FlagBitIdx |-> BitOf(n, i)]

sampledFlag == FlagsOf(sampledFlagValue)
debugFlag == FlagsOf(debugFlagValue)

\* f | g
BitOr(f, g) == [i \in FlagBitIdx |-> f[i] \/ g[i]]
\* f & g
BitAnd(f, g) == [i \in FlagBitIdx |-> f[i] /\ g[i]]

\* setFlags assigning the bit instead of or-ing it in: *f = bit
setFlagsAssign(f, bit) == bit

\* func (f *Flags) setFlags(bit Flags): the new *f
setFlags(f, bit) == BitOr(f, bit)

\* func (f Flags) checkFlags(bit Flags) bool
checkFlags(f, bit) == BitAnd(f, bit) = bit

\* func (f Flags) IsSampled() bool
IsSampled(f) == checkFlags(f, sampledFlag)

\* func (f Flags) IsDebug() bool
IsDebug(f) == checkFlags(f, debugFlag)

----------------------------------------------------------------------------
(* Hexadecimal text *)

\* the characters '0'..'9', 'a'..'z': the digit d is LowerChars[d + 1]
LowerChars == <<"0", "1", "2", "3", "4", "5", "6", "7", "8", "9",
                "a", "b", "c", "d", "e", "f", "g", "h", "i", "j", "k", "l", "m",
                "n", "o", "p", "q", "r", "s", "t", "u", "v", "w", "x", "y", "z">>

\* the characters 'A'..'Z'
UpperChars == <<"A", "B", "C", "D", "E", "F", "G", "H", "I", "J", "K", "L", "M",
                "N", "O", "P", "Q", "R", "S", "T", "U", "V", "W", "X", "Y", "Z">>

\* strconv.ParseUint's digit of a character: '0'..'9' are 0..9, a letter of either
\* case is 10..35, any other character has none (-1)
CharValue(c) ==
    IF \E i \in 1..Len(LowerChars) : LowerChars[i] = c
    THEN (CHOOSE i \in 1..Len(LowerChars) : LowerChars[i] = c) - 1
    ELSE IF \E i \in 1..Len(UpperChars) : UpperChars[i] = c
    THEN (CHOOSE i \in 1..Len(UpperChars) : UpperChars[i] = c) + 9
    ELSE -1

RECURSIVE StripZeros(_)
\* the digits of v without leading zeros
StripZeros(v) == IF v # <<>> /\ Head(v) = 0 THEN StripZeros(Tail(v)) ELSE v

\* fmt.Sprintf("%x", v): lowercase, no padding, "0" for zero
FormatHex(v) ==
    LET sig == StripZeros(v)
    IN  IF sig = <<>> THEN <<"0">> ELSE [i \in 1..Len(sig) |-> LowerChars[sig[i] + 1]]

RECURSIVE PadZeros(_, _)
\* the 0<width> flag of fmt: s padded on the left with '0' to at least width characters
PadZeros(s, width) == IF Len(s) >= width THEN s ELSE PadZeros(<<"0">> \o s, width)

\* fmt.Sprintf("%016x", v)
FormatHexPadded(v) == PadZeros(FormatHex(v), LowPadWidth)

\* n >= cutoff in strconv.ParseUint, cutoff = maxUint64/base + 1: n*base overflows
AtCutoff(n) == Head(n) # 0

\* n*base + d in strconv.ParseUint, for n below the cutoff and d < base
MulAdd(n, d) == Append(Tail(n), d)

RECURSIVE ParseLoop(_, _, _)
\* the loop of strconv.ParseUint over the characters of s from index i, n so far
ParseLoop(s, i, n) ==
    IF i > Len(s) THEN [err |-> "nil", val |-> n]
    ELSE LET d == CharValue(s[i])
         IN  IF d < 0 \/ d >= Base THEN [err |-> "syntax", val |-> ZeroU64]
             ELSE IF AtCutoff(n) THEN [err |-> "range", val |-> ZeroU64]
             ELSE ParseLoop(s, i + 1, MulAdd(n, d))

\* strconv.ParseUint(s, 16, 64): the value is used by the callers only when err is "nil"
ParseUint(s) ==
    IF s = <<>> THEN [err |-> "syntax", val |-> ZeroU64]
    ELSE ParseLoop(s, 1, ZeroU64)

----------------------------------------------------------------------------
(* TraceID *)

\* TraceID.String with "%x%x": the low word not padded
TraceIDStringUnpadded(t) ==
    IF t.High = ZeroU64 THEN FormatHex(t.Low)
    ELSE FormatHex(t.High) \o FormatHex(t.Low)

\* func (t TraceID) String() string
TraceIDString(t) ==
    IF t.High = ZeroU64 THEN FormatHex(t.Low)
    ELSE FormatHex(t.High) \o FormatHexPadded(t.Low)

\* TraceIDFromString splitting from len(s) >= 16 on
TraceIDFromStringSplitEarly(s) ==
    IF Len(s) > TraceIDMaxLen THEN [err |-> "length", id |-> ZeroTraceID]
    ELSE IF Len(s) >= TraceIDLowLen THEN
        LET hiLen == Len(s) - TraceIDLowLen
            hi == ParseUint(SubSeq(s, 1, hiLen))
            lo == ParseUint(SubSeq(s, hiLen + 1, Len(s)))
        IN  IF hi.err # "nil" THEN [err |-> hi.err, id |-> ZeroTraceID]
            ELSE IF lo.err # "nil" THEN [err |-> lo.err, id |-> ZeroTraceID]
            ELSE [err |-> "nil", id |-> TraceID(hi.val, lo.val)]
    ELSE
        LET lo == ParseUint(s)
        IN  IF lo.err # "nil" THEN [err |-> lo.err, id |-> ZeroTraceID]
            ELSE [err |-> "nil", id |-> TraceID(ZeroU64, lo.val)]

\* func TraceIDFromString(s string) (TraceID, error)
TraceIDFromString(s) ==
    IF Len(s) > TraceIDMaxLen THEN [err |-> "length", id |-> ZeroTraceID]
    ELSE IF Len(s) > TraceIDLowLen THEN
        LET hiLen == Len(s) - TraceIDLowLen
            hi == ParseUint(SubSeq(s, 1, hiLen))
            lo == ParseUint(SubSeq(s, hiLen + 1, Len(s)))
        IN  IF hi.err # "nil" THEN [err |-> hi.err, id |-> ZeroTraceID]
            ELSE IF lo.err # "nil" THEN [err |-> lo.err, id |-> ZeroTraceID]
            ELSE [err |-> "nil", id |-> TraceID(hi.val, lo.val)]
    ELSE
        LET lo == ParseUint(s)
        IN  IF lo.err # "nil" THEN [err |-> lo.err, id |-> ZeroTraceID]
            ELSE [err |-> "nil", id |-> TraceID(ZeroU64, lo.val)]

\* func (t TraceID) MarshalJSONPB(*jsonpb.Marshaler) ([]byte, error)
TraceIDMarshalJSONPB(t) == <<"\"">> \o TraceIDString(t) \o <<"\"">>

\* TraceID.UnmarshalJSONPB storing the parser's result before looking at its error
TraceIDUnmarshalJSONPBEager(t, b) ==
    IF Len(b) < MinJSONLen THEN [err |-> "short", id |-> t, parsed |-> FALSE]
    ELSE IF b[1] # "\"" \/ b[Len(b)] # "\"" THEN [err |-> "quotes", id |-> t, parsed |-> FALSE]
    ELSE LET q == TraceIDFromString(SubSeq(b, 2, Len(b) - 1))
         IN  [err |-> q.err, id |-> q.id, parsed |-> TRUE]

\* func (t *TraceID) UnmarshalJSONPB(_ *jsonpb.Unmarshaler, b []byte) error:
\* the error, the new *t, and whether TraceIDFromString was called
TraceIDUnmarshalJSONPB(t, b) ==
    IF Len(b) < MinJSONLen THEN [err |-> "short", id |-> t, parsed |-> FALSE]
    ELSE IF b[1] # "\"" \/ b[Len(b)] # "\"" THEN [err |-> "quotes", id |-> t, parsed |-> FALSE]
    ELSE LET q == TraceIDFromString(SubSeq(b, 2, Len(b) - 1))
         IN  IF q.err # "nil" THEN [err |-> q.err, id |-> t, parsed |-> TRUE]
             ELSE [err |-> "nil", id |-> q.id, parsed |-> TRUE]

----------------------------------------------------------------------------
(* SpanID *)

\* func (s SpanID) String() string
SpanIDString(s) == FormatHex(s)

\* func SpanIDFromString(s string) (SpanID, error)
SpanIDFromString(s) ==
    IF Len(s) > SpanIDMaxLen THEN [err |-> "length", id |-> ZeroU64]
    ELSE LET id == ParseUint(s)
         IN  IF id.err # "nil" THEN [err |-> id.err, id |-> ZeroU64]
             ELSE [err |-> "nil", id |-> id.val]

\* func (s SpanID) MarshalJSONPB(*jsonpb.Marshaler) ([]byte, error)
SpanIDMarshalJSONPB(s) == <<"\"">> \o SpanIDString(s) \o <<"\"">>

\* SpanID.UnmarshalJSONPB slicing b[1:] instead of b[1 : len(b)-1]
SpanIDUnmarshalJSONPBKeepQuote(s, b) ==
    IF Len(b) < MinJSONLen THEN [err |-> "short", id |-> s, parsed |-> FALSE]
    ELSE IF b[1] # "\"" \/ b[Len(b)] # "\"" THEN [err |-> "quotes", id |-> s, parsed |-> FALSE]
    ELSE LET q == SpanIDFromString(SubSeq(b, 2, Len(b)))
         IN  IF q.err # "nil" THEN [err |-> q.err, id |-> s, parsed |-> TRUE]
             ELSE [err |-> "nil", id |-> q.id, parsed |-> TRUE]

\* func (s *SpanID) UnmarshalJSONPB(_ *jsonpb.Unmarshaler, b []byte) error:
\* the error, the new *s, and whether SpanIDFromString was called
SpanIDUnmarshalJSONPB(s, b) ==
    IF Len(b) < MinJSONLen THEN [err |-> "short", id |-> s, parsed |-> FALSE]
    ELSE IF b[1] # "\"" \/ b[Len(b)] # "\"" THEN [err |-> "quotes", id |-> s, parsed |-> FALSE]
    ELSE LET q == SpanIDFromString(SubSeq(b, 2, Len(b) - 1))
         IN  IF q.err # "nil" THEN [err |-> q.err, id |-> s, parsed |-> TRUE]
             ELSE [err |-> "nil", id |-> q.id, parsed |-> TRUE]

----------------------------------------------------------------------------
(* Span: the parent reference *)

\* SpanRef{TraceID: t, SpanID: s, RefType: r}
SpanRef(t, s, r) == [TraceID |-> t, SpanID |-> s, RefType |-> r]

\* func NewChildOfRef(traceID TraceID, spanID SpanID) SpanRef
NewChildOfRef(t, s) == SpanRef(t, s, ChildOf)

\* the Span fields the parent logic reads
Span(t, refs) == [TraceID |-> t, References |-> refs]

RECURSIVE ParentSpanIDLoop(_, _)
\* the loop of ParentSpanID from index i
ParentSpanIDLoop(s, i) ==
    IF i > Len(s.References) THEN ZeroU64
    ELSE LET ref == s.References[i]
         IN  IF ref.TraceID = s.TraceID /\ ref.RefType = ChildOf THEN ref.SpanID
             ELSE ParentSpanIDLoop(s, i + 1)

RECURSIVE ParentSpanIDAnyTypeLoop(_, _)
ParentSpanIDAnyTypeLoop(s, i) ==
    IF i > Len(s.References) THEN ZeroU64
    ELSE LET ref == s.References[i]
         IN  IF ref.TraceID = s.TraceID THEN ref.SpanID
             ELSE ParentSpanIDAnyTypeLoop(s, i + 1)

\* ParentSpanID without the test of RefType
ParentSpanIDAnyType(s) == ParentSpanIDAnyTypeLoop(s, 1)

\* func (s *Span) ParentSpanID() SpanID
ParentSpanID(s) == ParentSpanIDLoop(s, 1)

\* MaybeAddParentSpanID appending the new reference
MaybeAddParentSpanIDAppend(t, parentID, refs) ==
    IF parentID = ZeroU64 THEN refs
    ELSE IF \E i \in 1..Len(refs) : refs[i].TraceID = t /\ refs[i].RefType = ChildOf THEN refs
    ELSE Append(refs, NewChildOfRef(t, parentID))

\* MaybeAddParentSpanID looking for a reference to the same span instead of a ChildOf one
MaybeAddParentSpanIDSameSpan(t, parentID, refs) ==
    IF parentID = ZeroU64 THEN refs
    ELSE IF \E i \in 1..Len(refs) : refs[i].TraceID = t /\ refs[i].SpanID = parentID THEN refs
    ELSE <<NewChildOfRef(t, parentID)>> \o refs

\* func MaybeAddParentSpanID(traceID TraceID, parentID SpanID, refs []SpanRef) []SpanRef
MaybeAddParentSpanID(t, parentID, refs) ==
    IF parentID = ZeroU64 THEN refs
    ELSE IF \E i \in 1..Len(refs) : refs[i].TraceID = t /\ refs[i].RefType = ChildOf THEN refs
    ELSE <<NewChildOfRef(t, parentID)>> \o refs

RECURSIVE ReplaceParentIDLoop(_, _, _, _)
\* the loop of ReplaceParentID from index i, and the fallback after it: the new
\* References, the index written (0 for none) and whether the fallback was reached
ReplaceParentIDLoop(s, oldParentID, newParentID, i) ==
    IF i > Len(s.References)
    THEN [refs |-> MaybeAddParentSpanID(s.TraceID, newParentID, s.References),
          written |-> 0, fallback |-> TRUE]
    ELSE IF s.References[i].SpanID = oldParentID /\ s.References[i].TraceID = s.TraceID
    THEN [refs |-> [s.References EXCEPT ![i].SpanID = newParentID],
          written |-> i, fallback |-> FALSE]
    ELSE ReplaceParentIDLoop(s, oldParentID, newParentID, i + 1)

\* ReplaceParentID looking for the new id instead of the old one
ReplaceParentIDFindNew(s, newParentID) == ReplaceParentIDLoop(s, newParentID, newParentID, 1)

\* func (s *Span) ReplaceParentID(newParentID SpanID)
ReplaceParentID(s, newParentID) == ReplaceParentIDLoop(s, ParentSpanID(s), newParentID, 1)

----------------------------------------------------------------------------
(* The values the model draws from *)

\* the trace id of the span
OwnTraceID == TraceID(ZeroU64, U64(1))
\* trace ids of references: the span's own and another trace's
SpanTraceIDs == {OwnTraceID, TraceID(U64(42), ZeroU64)}
\* span ids of the initial references, and of the operations' arguments
RefSpanIDs == {U64(0), U64(1)}
ArgSpanIDs == {U64(0), U64(1), U64(2)}
RefTypes == {ChildOf, FollowsFrom}
SpanRefs == {SpanRef(t, s, r) : t \in SpanTraceIDs, s \in RefSpanIDs, r \in RefTypes}

RECURSIVE SeqsUpTo(_, _)
\* the sequences over S of length at most n
SeqsUpTo(S, n) ==
    IF n = 0 THEN {<<>>}
    ELSE LET shorter == SeqsUpTo(S, n - 1)
         IN  shorter \cup {Append(q, x) : q \in {r \in shorter : Len(r) = n - 1}, x \in S}

\* bits an initial Flags value may have set
FlagSeedBits == {0, 1, 2, 15, 31}
FlagsValues == {[i \in FlagBitIdx |-> i \in S] : S \in SUBSET FlagSeedBits}

\* uint64 values: z zero digits, then the digit d, then the digit r to the end
U64Pattern(z, d, r) ==
    [i \in 1..HexDigitsPerWord |-> IF i <= z THEN 0 ELSE IF i = z + 1 THEN d ELSE r]
U64Values ==
    {ZeroU64} \cup {U64Pattern(z, 1, 0) : z \in 0..(HexDigitsPerWord - 1)}
              \cup {U64Pattern(z, 15, 10) : z \in 0..(HexDigitsPerWord - 1)}
\* High words: zero, and one, nine and sixteen digits wide
HighValues ==
    {ZeroU64} \cup {U64Pattern(z, 1, 0) : z \in {0, HexDigitsPerWord - 9, HexDigitsPerWord - 1}}
              \cup {U64Pattern(z, 15, 10) : z \in {0, HexDigitsPerWord - 9, HexDigitsPerWord - 1}}
TraceIDValues == {TraceID(h, l) : h \in HighValues, l \in U64Values}

\* strings: n times the character f, but the character c at index p
FillChars == {"0", "f"}
OddChars == {"1", "A", "g", "\""}
StringOf(n, f, p, c) == [i \in 1..n |-> IF i = p THEN c ELSE f]
\* the first and the last character, and the first of the last TraceIDLowLen
OddPositions(n) == {1, n - TraceIDLowLen + 1, n} \cap (1..n)
PlainStrings ==
    UNION {{StringOf(n, f, 0, f) : f \in FillChars} \cup
           {StringOf(n, f, p, c) : f \in FillChars, p \in OddPositions(n), c \in OddChars}
           : n \in 0..MaxStrLen}
Quotes == {<<>>, <<"\"">>}
Inputs == {l \o s \o r : l \in Quotes, s \in PlainStrings, r \in Quotes}

\* no identifier
NoID == [kind |-> "none"]

----------------------------------------------------------------------------
(* Span operations *)

SpanIdle ==
    /\ traceID = ZeroTraceID /\ references = <<>> /\ spanOp = [name |-> "none"]
    /\ spanRet = ZeroU64 /\ refsBefore = <<>>

SpanInit ==
    /\ traceID = OwnTraceID
    /\ references \in SeqsUpTo(SpanRefs, MaxRefs)
    /\ spanOp = [name |-> "init"]
    /\ spanRet = ZeroU64
    /\ refsBefore = references

ParentSpanIDStep ==
    /\ spanOp' = [name |-> "ParentSpanID"]
    /\ spanRet' = ParentSpanID(Span(traceID, references))
    /\ refsBefore' = references
    /\ UNCHANGED <<traceID, references>>
    /\ UNCHANGED <<flagsVars, codecVars>>

ReplaceParentIDStep ==
    \E newParentID \in ArgSpanIDs :
        LET r == ReplaceParentID(Span(traceID, references), newParentID)
        IN  /\ references' = r.refs
            /\ spanOp' = [name |-> "ReplaceParentID", id |-> newParentID,
                          written |-> r.written, fallback |-> r.fallback]
            /\ spanRet' = ZeroU64
            /\ refsBefore' = references
            /\ UNCHANGED traceID
            /\ UNCHANGED <<flagsVars, codecVars>>

\* span.References = MaybeAddParentSpanID(t, parentID, span.References)
MaybeAddParentSpanIDStep ==
    \E t \in SpanTraceIDs, parentID \in ArgSpanIDs :
        /\ references' = MaybeAddParentSpanID(t, parentID, references)
        /\ spanOp' = [name |-> "MaybeAddParentSpanID", traceID |-> t, id |-> parentID]
        /\ spanRet' = ZeroU64
        /\ refsBefore' = references
        /\ UNCHANGED traceID
        /\ UNCHANGED <<flagsVars, codecVars>>

----------------------------------------------------------------------------
(* Flags operations *)

FlagsIdle ==
    /\ flags = FlagsOf(0) /\ flagsOp = "none" /\ flagsRet = FALSE /\ flagsBefore = FlagsOf(0)

FlagsInit ==
    /\ flags \in FlagsValues
    /\ flagsOp = "init"
    /\ flagsRet = FALSE
    /\ flagsBefore = flags

SetSampledStep ==
    /\ flags' = setFlags(flags, sampledFlag)
    /\ flagsOp' = "SetSampled"
    /\ flagsRet' = FALSE
    /\ flagsBefore' = flags
    /\ UNCHANGED <<spanVars, codecVars>>

SetDebugStep ==
    /\ flags' = setFlags(flags, debugFlag)
    /\ flagsOp' = "SetDebug"
    /\ flagsRet' = FALSE
    /\ flagsBefore' = flags
    /\ UNCHANGED <<spanVars, codecVars>>

IsSampledStep ==
    /\ flagsRet' = IsSampled(flags)
    /\ flagsOp' = "IsSampled"
    /\ flagsBefore' = flags
    /\ UNCHANGED flags
    /\ UNCHANGED <<spanVars, codecVars>>

IsDebugStep ==
    /\ flagsRet' = IsDebug(flags)
    /\ flagsOp' = "IsDebug"
    /\ flagsBefore' = flags
    /\ UNCHANGED flags
    /\ UNCHANGED <<spanVars, codecVars>>

----------------------------------------------------------------------------
(* Codec operations *)

CodecIdle ==
    /\ tid = ZeroTraceID /\ sid = ZeroU64 /\ buf = <<>> /\ codecOp = "none"
    /\ codecErr = "nil" /\ codecRet = NoID /\ idBefore = NoID /\ hexParsed = FALSE
    /\ bufOf = NoID

\* the receivers a decoding of an arbitrary input starts from
ReceiverTraceID == TraceID(U64(7), U64(9))
ReceiverSpanID == U64(5)

CodecInit ==
    /\ \/ buf \in Inputs /\ tid = ReceiverTraceID /\ sid = ReceiverSpanID
       \/ buf = <<>> /\ tid \in TraceIDValues /\ sid = ReceiverSpanID
       \/ buf = <<>> /\ tid = ReceiverTraceID /\ sid \in U64Values
    /\ codecOp = "init"
    /\ codecErr = "nil"
    /\ codecRet = NoID
    /\ idBefore = NoID
    /\ hexParsed = FALSE
    /\ bufOf = NoID

\* buf = t.String()
TraceIDStringStep ==
    /\ buf' = TraceIDString(tid)
    /\ bufOf' = [kind |-> "TraceID.String", id |-> tid]
    /\ codecOp' = "TraceID.String"
    /\ codecErr' = "nil"
    /\ codecRet' = NoID /\ idBefore' = NoID /\ hexParsed' = FALSE
    /\ UNCHANGED <<tid, sid>>
    /\ UNCHANGED <<spanVars, flagsVars>>

\* TraceIDFromString(buf)
TraceIDFromStringStep ==
    LET r == TraceIDFromString(buf)
    IN  /\ codecOp' = "TraceIDFromString"
        /\ codecErr' = r.err
        /\ codecRet' = [kind |-> "TraceID", id |-> r.id]
        /\ idBefore' = NoID /\ hexParsed' = FALSE
        /\ UNCHANGED <<tid, sid, buf, bufOf>>
        /\ UNCHANGED <<spanVars, flagsVars>>

\* buf, _ = t.MarshalJSONPB(nil)
TraceIDMarshalJSONPBStep ==
    /\ buf' = TraceIDMarshalJSONPB(tid)
    /\ bufOf' = [kind |-> "TraceID.MarshalJSONPB", id |-> tid]
    /\ codecOp' = "TraceID.MarshalJSONPB"
    /\ codecErr' = "nil"
    /\ codecRet' = NoID /\ idBefore' = NoID /\ hexParsed' = FALSE
    /\ UNCHANGED <<tid, sid>>
    /\ UNCHANGED <<spanVars, flagsVars>>

\* err = t.UnmarshalJSONPB(nil, buf), t the TraceID at hand or a fresh `var t TraceID`
TraceIDUnmarshalJSONPBStep ==
    \E t \in {tid, ZeroTraceID} :
    LET r == TraceIDUnmarshalJSONPB(t, buf)
    IN  /\ tid' = r.id
        /\ codecOp' = "TraceID.UnmarshalJSONPB"
        /\ codecErr' = r.err
        /\ hexParsed' = r.parsed
        /\ idBefore' = [kind |-> "TraceID", id |-> t]
        /\ codecRet' = NoID
        /\ UNCHANGED <<sid, buf, bufOf>>
        /\ UNCHANGED <<spanVars, flagsVars>>

\* buf = s.String()
SpanIDStringStep ==
    /\ buf' = SpanIDString(sid)
    /\ bufOf' = [kind |-> "SpanID.String", id |-> sid]
    /\ codecOp' = "SpanID.String"
    /\ codecErr' = "nil"
    /\ codecRet' = NoID /\ idBefore' = NoID /\ hexParsed' = FALSE
    /\ UNCHANGED <<tid, sid>>
    /\ UNCHANGED <<spanVars, flagsVars>>

\* SpanIDFromString(buf)
SpanIDFromStringStep ==
    LET r == SpanIDFromString(buf)
    IN  /\ codecOp' = "SpanIDFromString"
        /\ codecErr' = r.err
        /\ codecRet' = [kind |-> "SpanID", id |-> r.id]
        /\ idBefore' = NoID /\ hexParsed' = FALSE
        /\ UNCHANGED <<tid, sid, buf, bufOf>>
        /\ UNCHANGED <<spanVars, flagsVars>>

\* buf, _ = s.MarshalJSONPB(nil)
SpanIDMarshalJSONPBStep ==
    /\ buf' = SpanIDMarshalJSONPB(sid)
    /\ bufOf' = [kind |-> "SpanID.MarshalJSONPB", id |-> sid]
    /\ codecOp' = "SpanID.MarshalJSONPB"
    /\ codecErr' = "nil"
    /\ codecRet' = NoID /\ idBefore' = NoID /\ hexParsed' = FALSE
    /\ UNCHANGED <<tid, sid>>
    /\ UNCHANGED <<spanVars, flagsVars>>

\* err = s.UnmarshalJSONPB(nil, buf), s the SpanID at hand or a fresh `var s SpanID`
SpanIDUnmarshalJSONPBStep ==
    \E s \in {sid, ZeroU64} :
    LET r == SpanIDUnmarshalJSONPB(s, buf)
    IN  /\ sid' = r.id
        /\ codecOp' = "SpanID.UnmarshalJSONPB"
        /\ codecErr' = r.err
        /\ hexParsed' = r.parsed
        /\ idBefore' = [kind |-> "SpanID", id |-> s]
        /\ codecRet' = NoID
        /\ UNCHANGED <<tid, buf, bufOf>>
        /\ UNCHANGED <<spanVars, flagsVars>>

----------------------------------------------------------------------------
(* Specifications *)

InitSpan == SpanInit /\ FlagsIdle /\ CodecIdle
NextSpan == ParentSpanIDStep \/ ReplaceParentIDStep \/ MaybeAddParentSpanIDStep
SpecSpan == InitSpan /\ [][NextSpan]_vars

InitFlags == SpanIdle /\ FlagsInit /\ CodecIdle
NextFlags == SetSampledStep \/ SetDebugStep \/ IsSampledStep \/ IsDebugStep
SpecFlags == InitFlags /\ [][NextFlags]_vars

InitCodec == SpanIdle /\ FlagsIdle /\ CodecInit
NextCodec ==
    \/ TraceIDStringStep \/ TraceIDFromStringStep
    \/ TraceIDMarshalJSONPBStep \/ TraceIDUnmarshalJSONPBStep
    \/ SpanIDStringStep \/ SpanIDFromStringStep
    \/ SpanIDMarshalJSONPBStep \/ SpanIDUnmarshalJSONPBStep
SpecCodec == InitCodec /\ [][NextCodec]_vars

Init == InitSpan \/ InitFlags \/ InitCodec
Next == NextSpan \/ NextFlags \/ NextCodec
Spec == Init /\ [][Next]_vars

----------------------------------------------------------------------------
(* What the claims speak of, stated without the operators above *)

\* the hexadecimal digits, in either case
LowerHex == <<"0", "1", "2", "3", "4", "5", "6", "7", "8", "9", "a", "b", "c", "d", "e", "f">>
UpperHex == <<"0", "1", "2", "3", "4", "5", "6", "7", "8", "9", "A", "B", "C", "D", "E", "F">>
IsHexChar(c) == \E d \in 0..15 : LowerHex[d + 1] = c \/ UpperHex[d + 1] = c
HexDigitOf(c) == CHOOSE d \in 0..15 : LowerHex[d + 1] = c \/ UpperHex[d + 1] = c
AllHex(s) == \A i \in 1..Len(s) : IsHexChar(s[i])
\* the 64-bit value of at most 16 hexadecimal digits
HexValueOf(s) ==
    [i \in 1..16 |-> IF i <= 16 - Len(s) THEN 0 ELSE HexDigitOf(s[i - (16 - Len(s))])]

\* the indices of the same-trace ChildOf entries of refs
ParentRefs(t, refs) == {i \in 1..Len(refs) : refs[i].TraceID = t /\ refs[i].RefType = 0}
\* the least element of a non-empty set of indices
Least(S) == CHOOSE i \in S : \A j \in S : i <= j

Quoted(b) == Len(b) >= 3 /\ b[1] = "\"" /\ b[Len(b)] = "\""

----------------------------------------------------------------------------
(* The claims *)

\* C1: TraceIDFromString(t.String()) returns no error and t, for every TraceID t,
\* High = 0 and Low = 0 included.
C1_TraceIDRoundTrip ==
    (codecOp = "TraceIDFromString" /\ bufOf.kind = "TraceID.String")
        => (codecErr = "nil" /\ codecRet.id = bufOf.id)

\* a TraceID with a non-zero High and a Low that needs padding went round
C1_Witness ==
    /\ codecOp = "TraceIDFromString" /\ bufOf.kind = "TraceID.String"
    /\ bufOf.id.High # ZeroU64 /\ bufOf.id.Low # ZeroU64 /\ bufOf.id.Low[1] = 0
    /\ codecRet.id = bufOf.id

\* C2: ParentSpanID returns the SpanID of the first reference, in order, of the span's
\* own trace and of type ChildOf, SpanID(0) when there is none, and leaves References
\* as they were.
C2_ParentSpanIDFirstMatch ==
    spanOp.name = "ParentSpanID" =>
        /\ references = refsBefore
        /\ LET P == ParentRefs(traceID, references)
           IN  spanRet = IF P = {} THEN ZeroU64 ELSE references[Least(P)].SpanID

\* a FollowsFrom entry and an entry of another trace were skipped, and a later match
\* with another SpanID ignored
C2_Witness ==
    /\ spanOp.name = "ParentSpanID"
    /\ Len(references) = 3
    /\ references[1].RefType = 1 /\ references[1].TraceID = traceID
    /\ references[1].SpanID # spanRet
    /\ ParentRefs(traceID, references) = {2, 3}
    /\ references[3].SpanID # references[2].SpanID
    /\ spanRet = references[2].SpanID

\* C3: for a span with a parent reference, ReplaceParentID overwrites the SpanID of the
\* entry ParentSpanID derives the parent from, keeps its position and RefType, and
\* ParentSpanID returns newParentID afterwards.
C3_ReplacesParentReference ==
    (spanOp.name = "ReplaceParentID" /\ ParentRefs(traceID, refsBefore) # {}) =>
        LET p == Least(ParentRefs(traceID, refsBefore))
        IN  /\ references = [refsBefore EXCEPT ![p].SpanID = spanOp.id]
            /\ ParentSpanID(Span(traceID, references)) = spanOp.id

\* C4: MaybeAddParentSpanID(traceID, parentID, references), with a non-zero parentID and
\* no ChildOf entry of traceID, returns {traceID, parentID, ChildOf} followed by the
\* entries of references in their order, and ParentSpanID of a span of that trace with
\* these references is parentID.
C4_MaybeAddPrepends ==
    (/\ spanOp.name = "MaybeAddParentSpanID"
     /\ spanOp.id # ZeroU64
     /\ ParentRefs(spanOp.traceID, refsBefore) = {}) =>
        /\ Len(references) = Len(refsBefore) + 1
        /\ references[1] = [TraceID |-> spanOp.traceID, SpanID |-> spanOp.id, RefType |-> 0]
        /\ \A i \in 1..Len(refsBefore) : references[i + 1] = refsBefore[i]
        /\ ParentSpanID(Span(spanOp.traceID, references)) = spanOp.id

\* the ChildOf reference to another trace that was first is second
C4_Witness ==
    /\ spanOp.name = "MaybeAddParentSpanID"
    /\ spanOp.traceID = traceID
    /\ spanOp.id # ZeroU64
    /\ Len(refsBefore) >= 2
    /\ refsBefore[1].RefType = 0 /\ refsBefore[1].TraceID # traceID
    /\ Len(references) = Len(refsBefore) + 1
    /\ references[2] = refsBefore[1]
    /\ references[1].SpanID = spanOp.id

\* C5: MaybeAddParentSpanID returns references unchanged when parentID is zero or
\* references holds a ChildOf entry of traceID; a second call with the same arguments on
\* its result changes nothing, and ParentSpanID is the same before and after.
C5_MaybeAddNoOp ==
    spanOp.name = "MaybeAddParentSpanID" =>
        /\ (spanOp.id = ZeroU64 \/ ParentRefs(spanOp.traceID, refsBefore) # {}) =>
              /\ references = refsBefore
              /\ ParentSpanID(Span(spanOp.traceID, references))
                     = ParentSpanID(Span(spanOp.traceID, refsBefore))
        /\ MaybeAddParentSpanID(spanOp.traceID, spanOp.id, references) = references

\* a parent id other than the existing parent's was not added
C5_Witness ==
    /\ spanOp.name = "MaybeAddParentSpanID"
    /\ spanOp.traceID = traceID
    /\ spanOp.id # ZeroU64
    /\ ParentRefs(traceID, refsBefore) # {}
    /\ ParentSpanID(Span(traceID, refsBefore)) # spanOp.id
    /\ references = refsBefore

C7_ParseErrors ==
    /\ codecOp = "TraceIDFromString" =>
          /\ Len(buf) > 32 => codecErr # "nil"
          /\ ~AllHex(buf) => codecErr # "nil"
          /\ (buf # <<>> /\ AllHex(buf) /\ Len(buf) <= 32) =>
                /\ codecErr = "nil"
                /\ codecRet.id =
                      IF Len(buf) <= 16 THEN [High |-> ZeroU64, Low |-> HexValueOf(buf)]
                      ELSE [High |-> HexValueOf(SubSeq(buf, 1, Len(buf) - 16)),
                            Low |-> HexValueOf(SubSeq(buf, Len(buf) - 15, Len(buf)))]
    /\ codecOp = "SpanIDFromString" =>
          /\ Len(buf) > 16 => codecErr # "nil"
          /\ ~AllHex(buf) => codecErr # "nil"
          /\ (buf # <<>> /\ AllHex(buf) /\ Len(buf) <= 16) =>
                codecErr = "nil" /\ codecRet.id = HexValueOf(buf)

\* a string of 32 hexadecimal digits, an upper case one among them, was split
C7_Witness ==
    /\ codecOp = "TraceIDFromString"
    /\ bufOf = NoID
    /\ Len(buf) = 32
    /\ \E i \in 1..Len(buf) : buf[i] = "A"
    /\ codecErr = "nil"
    /\ codecRet.id.High # ZeroU64 /\ codecRet.id.Low # ZeroU64

\* C8: UnmarshalJSONPB of TraceID and of SpanID fails without calling the hex parser on
\* fewer than 3 bytes or a first or last byte that is no double quote, and whenever it
\* fails the receiver keeps its value.
C8_UnmarshalErrors ==
    (codecOp = "TraceID.UnmarshalJSONPB" \/ codecOp = "SpanID.UnmarshalJSONPB") =>
        /\ ~Quoted(buf) => (codecErr # "nil" /\ ~hexParsed)
        /\ codecErr # "nil" =>
              IF codecOp = "TraceID.UnmarshalJSONPB" THEN tid = idBefore.id
              ELSE sid = idBefore.id

\* the hex parser failed on a quoted input and the non-zero receiver kept its value
C8_Witness ==
    /\ codecOp = "TraceID.UnmarshalJSONPB"
    /\ Quoted(buf) /\ hexParsed
    /\ codecErr # "nil"
    /\ idBefore.id # ZeroTraceID
    /\ tid = idBefore.id

\* C9: MarshalJSONPB of a TraceID or SpanID is its String() between double quotes, at
\* least 3 bytes, and UnmarshalJSONPB of it succeeds and yields the identifier.
C9_WireRoundTrip ==
    /\ codecOp = "TraceID.MarshalJSONPB" =>
          /\ Len(buf) >= 3 /\ buf[1] = "\"" /\ buf[Len(buf)] = "\""
          /\ SubSeq(buf, 2, Len(buf) - 1) = TraceIDString(tid)
    /\ codecOp = "SpanID.MarshalJSONPB" =>
          /\ Len(buf) >= 3 /\ buf[1] = "\"" /\ buf[Len(buf)] = "\""
          /\ SubSeq(buf, 2, Len(buf) - 1) = SpanIDString(sid)
    /\ (codecOp = "TraceID.UnmarshalJSONPB" /\ bufOf.kind = "TraceID.MarshalJSONPB") =>
          codecErr = "nil" /\ tid = bufOf.id
    /\ (codecOp = "SpanID.UnmarshalJSONPB" /\ bufOf.kind = "SpanID.MarshalJSONPB") =>
          codecErr = "nil" /\ sid = bufOf.id

\* a non-zero SpanID was decoded into a fresh SpanID
C9_Witness ==
    /\ codecOp = "SpanID.UnmarshalJSONPB" /\ bufOf.kind = "SpanID.MarshalJSONPB"
    /\ bufOf.id # ZeroU64
    /\ idBefore.id = ZeroU64
    /\ sid = bufOf.id

\* C10: ReplaceParentID reaches the MaybeAddParentSpanID fallback only without a parent
\* reference; with one, it writes the SpanID of exactly one entry and leaves the length,
\* the order, every TraceID and RefType and the number of same-trace ChildOf entries.
C10_ReplaceKeepsShape ==
    spanOp.name = "ReplaceParentID" =>
        /\ spanOp.fallback => ParentRefs(traceID, refsBefore) = {}
        /\ ParentRefs(traceID, refsBefore) # {} =>
              /\ Len(references) = Len(refsBefore)
              /\ spanOp.written \in 1..Len(refsBefore)
              /\ \A i \in 1..Len(refsBefore) :
                    /\ references[i].TraceID = refsBefore[i].TraceID
                    /\ references[i].RefType = refsBefore[i].RefType
                    /\ references[i].SpanID =
                          IF i = spanOp.written THEN spanOp.id ELSE refsBefore[i].SpanID
              /\ Cardinality(ParentRefs(traceID, references))
                    = Cardinality(ParentRefs(traceID, refsBefore))

\* the parent of a span with several references was replaced by another id
C10_Witness ==
    /\ spanOp.name = "ReplaceParentID"
    /\ ~spanOp.fallback
    /\ Len(refsBefore) >= 2
    /\ ParentRefs(traceID, refsBefore) # {}
    /\ references # refsBefore
    /\ ParentSpanID(Span(traceID, references)) = spanOp.id

====
